---- MODULE Spec2Model ----
(***************************************************************************)
(* The alarm state machine of minmon: AlarmBase<T> of src/alarm/mod.rs.    *)
(* One alarm instance is driven by a single sequence of put_data and       *)
(* put_error calls.  The alarm's fields are the variables; each call is    *)
(* one atomic action (the engine has no internal concurrency, and nothing  *)
(* else touches the alarm while an action target is awaited).              *)
(***************************************************************************)
EXTENDS Integers, FiniteSets, Sequences, TLC

\* ------------------------------------------------------------ bounds ----
\* Largest configured value of each threshold (0 is a value the constructor
\* accepts for all four).
MaxCycles == 2
MaxRepeatCycles == 2
MaxRecoverCycles == 2
MaxErrorRepeatCycles == 2
\* Largest value a progress counter of the state is followed to.
MaxCount == 4
\* Number of episode identifiers generated in one run.
MaxUuid == 3
\* Number of readings of the system clock in one run.
MaxClock == 3
\* Width in bits of the progress counters in this model.  They are u32 in
\* the code; 2^32 is beyond the integers TLC computes with, and a wrap of a
\* 32-bit counter is 2^32 calls away, so the model follows the same
\* arithmetic on a narrower counter.  MaxCount stays below the largest
\* value, so only SpecWrap, which follows the counters all the way, wraps.
CounterBits == 3

\* ----------------------------------------------------------- variables --
VARIABLES
    cycles,               \* AlarmBase.cycles
    repeat_cycles,        \* AlarmBase.repeat_cycles
    recover_cycles,       \* AlarmBase.recover_cycles
    error_repeat_cycles,  \* AlarmBase.error_repeat_cycles
    invert,               \* AlarmBase.invert
    placeholders,         \* AlarmBase.placeholders
    recover_placeholders, \* AlarmBase.recover_placeholders
    error_placeholders,   \* AlarmBase.error_placeholders
    state,                \* AlarmBase.state
    uuids,                \* number of identifiers Uuid::new_v4 has produced
    clock,                \* number of readings SystemTime::now has produced
    last,                 \* what the most recent call did (observation)
    badsOnly,             \* observation: calls so far, if all were bad verdicts
    goodRun,              \* observation: good verdicts in a row met in Normal-Bad
    errRun,               \* observation: consecutive put_error calls just made
    preError,             \* observation: state before the first of those calls
    sinceTrigger,         \* observation: calls since the last trigger of a run
    interval,             \* observation: calls between the last two triggers
    episodeUuids,         \* observation: alarm_uuid of the bad triggers of the episode
    quiet                 \* environment: only good samples arrive from now on

\* The three Option<Arc<dyn Action>> fields are not variables: no update
\* function reads them, a call reads at most the one of its trigger function,
\* and the constructor takes any combination (the test module also assigns
\* alarm.action between calls).  Whether the field a call reads is Some is
\* left open at each call (`target`), and so is what the target returns (`ok`).
config == <<cycles, repeat_cycles, recover_cycles, error_repeat_cycles, invert,
            placeholders, recover_placeholders, error_placeholders>>
observed == <<last, badsOnly, goodRun, errRun, preError, sinceTrigger, interval,
              episodeUuids>>
vars == <<config, state, uuids, clock, observed, quiet>>

\* ---------------------------------------------------------- the state ---
\* Option<String>::None of GoodState.last_alarm_uuid; identifiers are 1, 2, ..
NoUuid == 0

GoodState(ts, lau, bc) ==
    [tag |-> "Good", timestamp |-> ts, last_alarm_uuid |-> lau, bad_cycles |-> bc]

BadState(ts, uu, cyc, gc) ==
    [tag |-> "Bad", timestamp |-> ts, uuid |-> uu, cycles |-> cyc, good_cycles |-> gc]

ErrorState(ts, uu, shadow, cyc) ==
    [tag |-> "Error", timestamp |-> ts, uuid |-> uu, shadowed_state |-> shadow,
     cycles |-> cyc]

\* State::default(): a Normal-Good state stamped with the current time.
DefaultState(ts) == GoodState(ts, NoUuid, 0)

\* Variant: negation leaves the verdict as it is.
NotIdentity(d) == d

\* impl Not for SinkDecision
Not(d) == IF d = "Good" THEN "Bad" ELSE "Good"

\* ------------------------------------------------------- u32 counters ---
CounterModulus == 2 ^ CounterBits
CounterMax == CounterModulus - 1

\* `x + 1` on a counter when the addition is not checked for overflow
\* (release profile): it wraps.  With overflow checks (debug profile) the
\* addition panics at CounterMax instead; see Overflows.
Inc(x) == (x + 1) % CounterModulus

\* The state whose episode a call works on: the shadow for an Erroring one.
Resumed(st) == IF st.tag = "Error" THEN st.shadowed_state ELSE st

\* --------------------------------------------------- update functions ---
\* Each takes the state, the identifier `uu` the next Uuid::new_v4() call
\* returns and the time `ts` the next SystemTime::now() call returns, and
\* gives the pair (new_state, trigger) of the code.

\* Variant: the state met by the first error is not kept, the shadow is a
\* default state.
error_update_state_noshadow(st, uu, ts) ==
    IF st.tag \in {"Good", "Bad"} THEN
        [state |-> ErrorState(ts, uu, DefaultState(ts), 1), trigger |-> TRUE]
    ELSE
        LET hit == (Inc(st.cycles) = error_repeat_cycles)
            cyc == IF hit THEN 1 ELSE Inc(st.cycles)
        IN  [state |-> ErrorState(st.timestamp, st.uuid, st.shadowed_state, cyc),
             trigger |-> hit]

\* Variant: the first error of an episode is counted as 0, not 1.
error_update_state_zero(st, uu, ts) ==
    IF st.tag \in {"Good", "Bad"} THEN
        [state |-> ErrorState(ts, uu, st, 0), trigger |-> TRUE]
    ELSE
        LET hit == (Inc(st.cycles) = error_repeat_cycles)
            cyc == IF hit THEN 1 ELSE Inc(st.cycles)
        IN  [state |-> ErrorState(st.timestamp, st.uuid, st.shadowed_state, cyc),
             trigger |-> hit]

\* Variant: a further error shadows the Erroring state itself.
error_update_state_nested(st, uu, ts) ==
    IF st.tag \in {"Good", "Bad"} THEN
        [state |-> ErrorState(ts, uu, st, 1), trigger |-> TRUE]
    ELSE
        LET hit == (Inc(st.cycles) = error_repeat_cycles)
            cyc == IF hit THEN 1 ELSE Inc(st.cycles)
        IN  [state |-> ErrorState(st.timestamp, st.uuid, st, cyc), trigger |-> hit]

\* Variant: a re-trigger of the error episode takes a new identifier.
error_update_state_fresh(st, uu, ts) ==
    IF st.tag \in {"Good", "Bad"} THEN
        [state |-> ErrorState(ts, uu, st, 1), trigger |-> TRUE]
    ELSE
        LET hit == (Inc(st.cycles) = error_repeat_cycles)
            cyc == IF hit THEN 1 ELSE Inc(st.cycles)
        IN  [state |-> ErrorState(st.timestamp, IF hit THEN uu ELSE st.uuid,
                                  st.shadowed_state, cyc),
             trigger |-> hit]

error_update_state(st, uu, ts) ==
    IF st.tag = "Good" THEN
        [state |-> ErrorState(ts, uu, st, 1), trigger |-> TRUE]
    ELSE IF st.tag = "Bad" THEN
        [state |-> ErrorState(ts, uu, st, 1), trigger |-> TRUE]
    ELSE
        LET hit == (Inc(st.cycles) = error_repeat_cycles)
            cyc == IF hit THEN 1 ELSE Inc(st.cycles)
        IN  [state |-> ErrorState(st.timestamp, st.uuid, st.shadowed_state, cyc),
             trigger |-> hit]

\* Variant: Normal-Good compares the bad-progress before counting the
\* verdict, so the first trigger comes one verdict late.
RECURSIVE bad_update_state_late(_, _, _)
bad_update_state_late(st, uu, ts) ==
    IF st.tag = "Good" THEN
        IF st.bad_cycles = cycles THEN
            [state |-> BadState(ts, uu, 1, 0), trigger |-> TRUE]
        ELSE
            [state |-> GoodState(st.timestamp, NoUuid, Inc(st.bad_cycles)),
             trigger |-> FALSE]
    ELSE IF st.tag = "Bad" THEN
        LET hit == (Inc(st.cycles) = repeat_cycles)
            cyc == IF hit THEN 1 ELSE Inc(st.cycles)
        IN  [state |-> BadState(st.timestamp, st.uuid, cyc, 0), trigger |-> hit]
    ELSE
        bad_update_state_late(st.shadowed_state, uu, ts)

RECURSIVE bad_update_state(_, _, _)
bad_update_state(st, uu, ts) ==
    IF st.tag = "Good" THEN
        IF Inc(st.bad_cycles) = cycles THEN
            [state |-> BadState(ts, uu, 1, 0), trigger |-> TRUE]
        ELSE
            [state |-> GoodState(st.timestamp, NoUuid, Inc(st.bad_cycles)),
             trigger |-> FALSE]
    ELSE IF st.tag = "Bad" THEN
        LET hit == (Inc(st.cycles) = repeat_cycles)
            cyc == IF hit THEN 1 ELSE Inc(st.cycles)
        IN  [state |-> BadState(st.timestamp, st.uuid, cyc, 0), trigger |-> hit]
    ELSE
        \* self.state = shadow is overwritten by the caller before anything
        \* reads it; the result is the update of the shadow.
        bad_update_state(st.shadowed_state, uu, ts)

\* Variant: an Erroring state is resumed with the good update of its shadow.
good_update_state_resume_good(st, uu, ts) ==
    LET sh == Resumed(st)
    IN  IF sh.tag = "Good" THEN
            [state |-> sh, trigger |-> FALSE]
        ELSE IF Inc(sh.good_cycles) = recover_cycles THEN
            [state |-> GoodState(ts, sh.uuid, 0), trigger |-> TRUE]
        ELSE
            [state |-> BadState(sh.timestamp, sh.uuid, Inc(sh.cycles),
                                Inc(sh.good_cycles)),
             trigger |-> FALSE]

\* Variant: Normal-Bad compares the recovery-progress before counting the
\* verdict, so the recovery comes one verdict late.
good_update_state_late(st, uu, ts) ==
    IF st.tag = "Good" THEN
        [state |-> st, trigger |-> FALSE]
    ELSE IF st.tag = "Bad" THEN
        IF st.good_cycles = recover_cycles THEN
            [state |-> GoodState(ts, st.uuid, 0), trigger |-> TRUE]
        ELSE
            [state |-> BadState(st.timestamp, st.uuid, Inc(st.cycles),
                                Inc(st.good_cycles)),
             trigger |-> FALSE]
    ELSE
        bad_update_state(st.shadowed_state, uu, ts)

good_update_state(st, uu, ts) ==
    IF st.tag = "Good" THEN
        [state |-> st, trigger |-> FALSE]
    ELSE IF st.tag = "Bad" THEN
        IF Inc(st.good_cycles) = recover_cycles THEN
            [state |-> GoodState(ts, st.uuid, 0), trigger |-> TRUE]
        ELSE
            [state |-> BadState(st.timestamp, st.uuid, Inc(st.cycles),
                                Inc(st.good_cycles)),
             trigger |-> FALSE]
    ELSE
        bad_update_state(st.shadowed_state, uu, ts)

\* The update function for verdict `d` adds 1 to a counter that is at its
\* largest value: error_update_state adds to error.cycles; bad_update_state
\* to good.bad_cycles or bad.cycles; good_update_state to bad.good_cycles
\* and, when that does not recover, to bad.cycles; both go on with the
\* shadow of an Erroring state.
RECURSIVE Overflows(_, _)
Overflows(d, st) ==
    IF d = "Error" THEN st.tag = "Error" /\ st.cycles = CounterMax
    ELSE IF st.tag = "Error" THEN Overflows("Bad", st.shadowed_state)
    ELSE IF d = "Bad" THEN
        IF st.tag = "Good" THEN st.bad_cycles = CounterMax
        ELSE st.cycles = CounterMax
    ELSE
        /\ st.tag = "Bad"
        /\ \/ st.good_cycles = CounterMax
           \/ Inc(st.good_cycles) # recover_cycles /\ st.cycles = CounterMax

\* ----------------------------------------------------------- triggers ---
\* What a call of one of the three trigger functions does: `called` is the
\* function, `configured` whether its Option<action> field is Some,
\* `invoked` the number of times an action target was run, `actionOk` what
\* the target returned, `result` what the function gives back ("Panic" for
\* the panic!() branch).
NoTrigger ==
    [called |-> "none", configured |-> FALSE, invoked |-> 0, actionOk |-> TRUE,
     result |-> "Ok"]

Panicked(fn) ==
    [called |-> fn, configured |-> FALSE, invoked |-> 0, actionOk |-> TRUE,
     result |-> "Panic"]

\* match &self.action { Some(action) => action.trigger(..).await, None => Ok(()) }
\* `target`: the field is Some; `ok`: what the action target returns if run.
invoke_action(fn, target, ok) ==
    IF target THEN
        [called |-> fn, configured |-> TRUE, invoked |-> 1, actionOk |-> ok,
         result |-> IF ok THEN "Ok" ELSE "Err"]
    ELSE
        [called |-> fn, configured |-> FALSE, invoked |-> 0, actionOk |-> TRUE,
         result |-> "Ok"]

\* target: self.action is Some
trigger(st, target, ok) ==
    IF st.tag = "Bad" THEN invoke_action("trigger", target, ok)
    ELSE Panicked("trigger")

\* target: self.recover_action is Some
trigger_recover(st, target, ok) ==
    IF st.tag = "Good" THEN invoke_action("trigger_recover", target, ok)
    ELSE Panicked("trigger_recover")

\* target: self.error_action is Some
trigger_error(st, target, ok) ==
    IF st.tag = "Error" THEN invoke_action("trigger_error", target, ok)
    ELSE Panicked("trigger_error")

\* ------------------------------------------------------- placeholders ---
\* A PlaceholderMap is a function from its keys to strings.
Empty == [k \in {} |-> ""]

\* HashMap::insert: the key gets the value, whatever it had.
insert(m, k, v) == [x \in DOMAIN m \cup {k} |-> IF x = k THEN v ELSE m[x]]

\* crate::merge_placeholders(target, source): the keys of source that target
\* does not have are added; the keys target has keep their values.
merge_placeholders(target, source) ==
    [x \in DOMAIN target \cup DOMAIN source |->
        IF x \in DOMAIN target THEN target[x] ELSE source[x]]

\* crate::iso8601(timestamp): the time as text.
iso8601(ts) == "T" \o ToString(ts)

\* Uuid::to_string of the identifier number uu.
uuid_string(uu) == "uuid-" \o ToString(uu)

\* AlarmBase.name (the alarm of the test module).
name == "Name"

add_placeholders_base_first(pl) ==
    merge_placeholders(placeholders, insert(pl, "alarm_name", name))

add_placeholders(pl) ==
    merge_placeholders(insert(pl, "alarm_name", name), placeholders)

trigger_placeholders_no_timestamp(st, pl) ==
    insert(add_placeholders(pl), "alarm_uuid", uuid_string(st.uuid))

\* The map trigger builds from the map `pl` it is given, in state st.
trigger_placeholders(st, pl) ==
    insert(insert(add_placeholders(pl), "alarm_timestamp", iso8601(st.timestamp)),
           "alarm_uuid", uuid_string(st.uuid))

trigger_recover_placeholders_no_uuid(st, pl) ==
    merge_placeholders(add_placeholders(pl), recover_placeholders)

\* The map trigger_recover builds.
trigger_recover_placeholders(st, pl) ==
    LET added == add_placeholders(pl)
        withUuid == IF st.last_alarm_uuid # NoUuid
                    THEN insert(added, "alarm_uuid", uuid_string(st.last_alarm_uuid))
                    ELSE added
    IN  merge_placeholders(withUuid, recover_placeholders)

\* The map trigger_error builds.
trigger_error_placeholders(st, pl) ==
    merge_placeholders(
        insert(insert(add_placeholders(pl), "error_uuid", uuid_string(st.uuid)),
               "error_timestamp", iso8601(st.timestamp)),
        error_placeholders)

\* The map the trigger function of a call with outcome `out` builds for its
\* action target, the caller having passed `caller` to put_data / put_error
\* (both insert alarm_name before anything else); Empty when no trigger
\* function builds one.
Payload(out, caller) ==
    LET pl == insert(caller, "alarm_name", name)
    IN  IF out.result = "Panic" THEN Empty
        ELSE IF out.called = "trigger" /\ out.state.tag = "Bad"
             THEN trigger_placeholders(out.state, pl)
        ELSE IF out.called = "trigger_recover" /\ out.state.tag = "Good"
             THEN trigger_recover_placeholders(out.state, pl)
        ELSE IF out.called = "trigger_error" /\ out.state.tag = "Error"
             THEN trigger_error_placeholders(out.state, pl)
        ELSE Empty

\* The maps of the test module: the alarm's base placeholders and the map
\* passed with the sample that triggers.
HelloWorld == [k \in {"Hello"} |-> "World"]
FooBar == [k \in {"Foo"} |-> "Bar"]

\* -------------------------------------------------- error / bad / good ---
\* The outcome of a call: the state it leaves in self.state and what its
\* trigger function did.  self.state is assigned before the trigger function
\* is called, so the outcome's state is new_state whatever the trigger does.
Outcome(new_state, trig, tr) ==
    [state |-> new_state, trigger |-> trig, called |-> tr.called,
     configured |-> tr.configured, invoked |-> tr.invoked, actionOk |-> tr.actionOk, result |-> tr.result]

\* Variant: a failed error action puts the old state back.
errorRollback(st, uu, ts, target, ok) ==
    LET upd == error_update_state(st, uu, ts)
        tr == IF upd.trigger THEN trigger_error(upd.state, target, ok) ELSE NoTrigger
    IN  Outcome(IF tr.result = "Err" THEN st ELSE upd.state, upd.trigger, tr)

error(st, uu, ts, target, ok) ==
    LET upd == error_update_state(st, uu, ts)
        tr == IF upd.trigger THEN trigger_error(upd.state, target, ok) ELSE NoTrigger
    IN  Outcome(upd.state, upd.trigger, tr)

bad(st, uu, ts, target, ok) ==
    LET upd == bad_update_state(st, uu, ts)
        tr == IF upd.trigger THEN trigger(upd.state, target, ok) ELSE NoTrigger
    IN  Outcome(upd.state, upd.trigger, tr)

good(st, uu, ts, target, ok) ==
    LET upd == good_update_state(st, uu, ts)
        tr == IF upd.trigger THEN trigger_recover(upd.state, target, ok) ELSE NoTrigger
    IN  Outcome(upd.state, upd.trigger, tr)

\* ------------------------------------------------ put_data / put_error ---
\* What DataSink::put_data can return.
SinkResults == {"Good", "Bad", "Err"}

\* Alarm::put_data.  `raw` is what the data sink returns for the sample; an
\* Err leaves through the `?` before anything else happens.
put_data(inv, st, uu, ts, raw, target, ok) ==
    IF raw = "Err" THEN
        [decision |-> "none"] @@ Outcome(st, FALSE, [NoTrigger EXCEPT !.result = "Err"])
    ELSE
        LET decision == IF inv THEN Not(raw) ELSE raw
        IN  IF decision = "Good" THEN [decision |-> "Good"] @@ good(st, uu, ts, target, ok)
            ELSE [decision |-> "Bad"] @@ bad(st, uu, ts, target, ok)

\* Alarm::put_error.
put_error(st, uu, ts, target, ok) ==
    [decision |-> "Error"] @@ error(st, uu, ts, target, ok)

\* The outcome of a call whose update function panics in an overflowing
\* addition (a build with overflow checks): no trigger function is reached
\* and no new state is assigned; a data call met in an Erroring state has
\* by then put the shadow in self.state.
OverflowPanic(d, st) ==
    [decision |-> d] @@
    Outcome(IF d # "Error" /\ st.tag = "Error" THEN st.shadowed_state ELSE st,
            FALSE, [NoTrigger EXCEPT !.result = "Panic"])

\* ------------------------------------------------------------- bounds ---
\* The progress counters of a state, the shadow's included.
RECURSIVE Counters(_)
Counters(st) ==
    IF st.tag = "Good" THEN {st.bad_cycles}
    ELSE IF st.tag = "Bad" THEN {st.cycles, st.good_cycles}
    ELSE {st.cycles} \cup Counters(st.shadowed_state)

\* The identifier / the time the next call gets if it asks for one.
NextUuid == uuids + 1
NextTime == clock + 1

UsesUuid(st) == st.tag \in {"Bad", "Error"} /\ st.uuid = NextUuid
UsesTime(st) == st.timestamp = NextTime

Bounded(st, limit) ==
    /\ \A c \in Counters(st) : c <= limit
    /\ UsesUuid(st) => NextUuid <= MaxUuid
    /\ UsesTime(st) => NextTime <= MaxClock

Min(a, b) == IF a < b THEN a ELSE b

\* --------------------------------------------------------------- Init ---
\* The alarm as AlarmBase::new leaves it, whatever its configuration.
InitState ==
    /\ state = DefaultState(0)
    /\ uuids = 0
    /\ clock = 0
    /\ last = [op |-> "new", raw |-> "none", pre |-> DefaultState(0),
               decision |-> "none", trigger |-> FALSE, called |-> "none",
               configured |-> FALSE, invoked |-> 0, actionOk |-> TRUE, result |-> "Ok",
               caller |-> Empty, payload |-> Empty]
    /\ badsOnly = 0
    /\ goodRun = 0
    /\ errRun = 0
    /\ preError = DefaultState(0)
    /\ sinceTrigger = [kind |-> "none", calls |-> 0]
    /\ interval = 0
    /\ episodeUuids = {}
    /\ quiet = FALSE

\* Any thresholds and polarity, with the placeholder maps of the test module.
Init ==
    /\ cycles \in 0..MaxCycles
    /\ repeat_cycles \in 0..MaxRepeatCycles
    /\ recover_cycles \in 0..MaxRecoverCycles
    /\ error_repeat_cycles \in 0..MaxErrorRepeatCycles
    /\ invert \in BOOLEAN
    /\ placeholders = HelloWorld
    /\ recover_placeholders = Empty
    /\ error_placeholders = Empty
    /\ InitState

\* ------------------------------------------------------------ actions ---
\* The trigger kind a call fired for the run of verdicts it belongs to: the
\* bad trigger for a bad verdict, the error trigger for an error.
Fired(out) ==
    IF out.result = "Panic" THEN "none"
    ELSE IF out.called = "trigger" /\ out.decision = "Bad" THEN "Bad"
    ELSE IF out.called = "trigger_error" /\ out.decision = "Error" THEN "Error"
    ELSE "none"

\* A call with outcome `out` takes effect: the alarm's state is the
\* outcome's, and the observations are brought up to date.
Apply(op, raw, out, limit, caller) ==
    /\ Bounded(out.state, limit)
    /\ state' = out.state
    /\ uuids' = IF UsesUuid(out.state) THEN NextUuid ELSE uuids
    /\ clock' = IF UsesTime(out.state) THEN NextTime ELSE clock
    /\ last' = [op |-> op, raw |-> raw, pre |-> state, decision |-> out.decision,
                trigger |-> out.trigger, called |-> out.called,
                configured |-> out.configured, invoked |-> out.invoked,
                actionOk |-> out.actionOk, result |-> out.result,
                caller |-> IF Payload(out, caller) = Empty THEN Empty ELSE caller,
                payload |-> Payload(out, caller)]
    /\ badsOnly' = IF out.decision = "Bad" /\ badsOnly >= 0 /\ badsOnly < MaxCycles
                   THEN badsOnly + 1 ELSE -1
    /\ goodRun' = IF state.tag # "Bad" THEN 0
                  ELSE IF out.decision = "Good" THEN Min(goodRun + 1, MaxCount + 1)
                  ELSE IF out.decision = "none" THEN goodRun
                  ELSE 0
    /\ errRun' = IF out.decision = "Error" THEN Min(errRun + 1, MaxCount) ELSE 0
    /\ preError' = IF out.decision # "Error" THEN DefaultState(0)
                   ELSE IF errRun = 0 THEN state ELSE preError
    /\ sinceTrigger' =
           IF Fired(out) # "none" THEN [kind |-> Fired(out), calls |-> 0]
           ELSE IF out.decision \in {"Bad", "Error"} /\ sinceTrigger.kind = out.decision
                THEN [sinceTrigger EXCEPT !.calls = Min(@ + 1, MaxCount + 1)]
           ELSE [kind |-> "none", calls |-> 0]
    /\ interval' = IF Fired(out) # "none" /\ sinceTrigger.kind = Fired(out)
                   THEN sinceTrigger.calls + 1 ELSE 0
    /\ episodeUuids' =
           IF out.called = "trigger" /\ "alarm_uuid" \in DOMAIN Payload(out, caller)
           THEN (IF Resumed(state).tag = "Good" THEN {} ELSE episodeUuids)
                    \cup {Payload(out, caller)["alarm_uuid"]}
           ELSE episodeUuids
    /\ UNCHANGED <<config, quiet>>

\* `target`, `ok` and `checked` are chosen only where the call reads them.
Canonical(out, target, ok) ==
    /\ out.configured = target
    /\ out.invoked = 0 => ok

\* A call of put_data with a sample the sink classifies as `raw`, in runs
\* that follow the counters up to `limit`.  `checked`: the build checks
\* additions for overflow (it panics) or not (it wraps).
PutDataUpTo(limit, callers) ==
    /\ last.result # "Panic"
    /\ \E raw \in SinkResults, target \in BOOLEAN, ok \in BOOLEAN,
          checked \in BOOLEAN, caller \in callers :
          LET d == IF raw = "Err" THEN "none" ELSE IF invert THEN Not(raw) ELSE raw
              ovf == d # "none" /\ Overflows(d, state)
              out == IF ovf /\ checked THEN OverflowPanic(d, state)
                     ELSE put_data(invert, state, NextUuid, NextTime, raw, target, ok)
          IN  /\ checked => ovf
              /\ Canonical(out, target, ok)
              /\ Apply("put_data", raw, out, limit, caller)

\* A call of put_error.
PutErrorUpTo(limit, callers) ==
    /\ last.result # "Panic"
    /\ \E target \in BOOLEAN, ok \in BOOLEAN, checked \in BOOLEAN, caller \in callers :
          LET ovf == Overflows("Error", state)
              out == IF ovf /\ checked THEN OverflowPanic("Error", state)
                     ELSE put_error(state, NextUuid, NextTime, target, ok)
          IN  /\ checked => ovf
              /\ Canonical(out, target, ok)
              /\ Apply("put_error", "none", out, limit, caller)

PutData == PutDataUpTo(MaxCount, {FooBar})

PutError == PutErrorUpTo(MaxCount, {FooBar})

Next == PutData \/ PutError

Spec == Init /\ [][Next]_vars

\* ------------------------------------------------------------ SpecWrap ---
\* The same alarm in runs long enough for a counter to reach its largest
\* value: an alarm that repeats neither kind of trigger, so that the counts
\* of an episode run on.
InitWrap ==
    /\ Init
    /\ repeat_cycles = 0
    /\ error_repeat_cycles = 0
    /\ ~invert

PutDataWrap == PutDataUpTo(CounterMax, {FooBar})

PutErrorWrap == PutErrorUpTo(CounterMax, {FooBar})

NextWrap == PutDataWrap \/ PutErrorWrap

SpecWrap == InitWrap /\ [][NextWrap]_vars

\* ----------------------------------------------------------- SpecQuiet ---
\* The same alarm with a scheduler that, from some point on, calls put_data
\* with samples the alarm takes as good and nothing else, and keeps calling.
\* The calls before that point leave one identifier and one clock reading
\* within the bounds, and the counters may go on for recover_cycles calls.
PutDataNoisy ==
    /\ ~quiet
    /\ PutDataUpTo(MaxCount, {FooBar})
    /\ uuids' < MaxUuid /\ clock' < MaxClock

PutErrorNoisy ==
    /\ ~quiet
    /\ PutErrorUpTo(MaxCount, {FooBar})
    /\ uuids' < MaxUuid /\ clock' < MaxClock

BeginQuiet ==
    /\ ~quiet
    /\ quiet' = TRUE
    /\ UNCHANGED <<config, state, uuids, clock, observed>>

\* A call of put_data with a sample whose verdict, after invert, is good.
GoodSample ==
    /\ quiet
    /\ last.result # "Panic"
    /\ \E target \in BOOLEAN, ok \in BOOLEAN :
          LET raw == IF invert THEN "Bad" ELSE "Good"
              out == put_data(invert, state, NextUuid, NextTime, raw, target, ok)
          IN  /\ Canonical(out, target, ok)
              /\ Apply("put_data", raw, out, MaxCount + MaxRecoverCycles, FooBar)

NextQuiet == PutDataNoisy \/ PutErrorNoisy \/ BeginQuiet \/ GoodSample

SpecQuiet == Init /\ [][NextQuiet]_vars /\ WF_vars(GoodSample)

\* --------------------------------------------------------- SpecPayload ---
\* The same alarm with placeholder maps that share keys with one another
\* and with the keys the engine sets, for a few thresholds.
CallerMaps ==
    {Empty, FooBar, [k \in {"Foo", "alarm_name"} |-> IF k = "Foo" THEN "Bar" ELSE "Mine"]}

\* The configuration of the test module, and one whose three maps all have
\* the caller's key Foo.
PlaceholderConfigs ==
    { [placeholders |-> HelloWorld, recover_placeholders |-> Empty,
       error_placeholders |-> Empty],
      [placeholders |-> [k \in {"Hello", "Foo"} |-> IF k = "Foo" THEN "Base" ELSE "World"],
       recover_placeholders |-> [k \in {"Foo", "Why"} |-> IF k = "Foo" THEN "Recover" ELSE "Cleared"],
       error_placeholders |-> [k \in {"Foo", "Why"} |-> IF k = "Foo" THEN "Error" ELSE "Failed"]] }

InitPayload ==
    /\ cycles \in 1..MaxCycles
    /\ repeat_cycles \in {0, MaxRepeatCycles}
    /\ recover_cycles \in 1..MaxRecoverCycles
    /\ error_repeat_cycles \in {0, MaxErrorRepeatCycles}
    /\ invert = FALSE
    /\ \E c \in PlaceholderConfigs :
          /\ placeholders = c.placeholders
          /\ recover_placeholders = c.recover_placeholders
          /\ error_placeholders = c.error_placeholders
    /\ InitState

PutDataPayload == PutDataUpTo(MaxCount, CallerMaps)

PutErrorPayload == PutErrorUpTo(MaxCount, CallerMaps)

NextPayload == PutDataPayload \/ PutErrorPayload

SpecPayload == InitPayload /\ [][NextPayload]_vars

\* ============================================================ claims ====

\* C1: whatever the calls, trigger / trigger_recover / trigger_error are
\* only called in the matching state, so no call ends in the panic branch
\* (a good verdict met while Erroring included).
C1_NeverPanics == last.result # "Panic"

\* C2: from the initial state and with bad verdicts only, the first
\* cycles - 1 calls call no trigger and leave the state Normal-Good; call
\* number cycles calls trigger once (running the action target once when one
\* is configured) and leaves Normal-Bad with bad-count 1, recovery-progress 0.
C2_FirstTrigger ==
    (cycles >= 1 /\ badsOnly >= 1) =>
        /\ badsOnly < cycles =>
              /\ state.tag = "Good"
              /\ last.called = "none"
              /\ last.invoked = 0
        /\ badsOnly = cycles =>
              /\ state.tag = "Bad"
              /\ state.cycles = 1
              /\ state.good_cycles = 0
              /\ last.called = "trigger"
              /\ last.result # "Panic"
              /\ last.invoked = (IF last.configured THEN 1 ELSE 0)

C2_Witness ==
    /\ cycles >= 2
    /\ badsOnly = cycles
    /\ state.tag = "Bad"
    /\ last.invoked = 1

\* C3: in Normal-Bad with repeat_cycles = r >= 1 and bad verdicts only, two
\* successive bad triggers are exactly r put_data calls apart (so a trigger
\* is never more than r calls away from the one before).
C3_RepeatEveryR ==
    /\ (last.called = "trigger" /\ interval > 0) => interval = repeat_cycles
    /\ (sinceTrigger.kind = "Bad" /\ repeat_cycles >= 1) =>
           sinceTrigger.calls < repeat_cycles

\* C4: while Erroring with error_repeat_cycles = e >= 1 and put_error calls
\* only, two successive error triggers are exactly e put_error calls apart.
C4_ErrorRepeatEveryE ==
    /\ (last.called = "trigger_error" /\ interval > 0) =>
           interval = error_repeat_cycles
    /\ (sinceTrigger.kind = "Error" /\ error_repeat_cycles >= 1) =>
           sinceTrigger.calls < error_repeat_cycles

\* C5: in Normal-Bad the recovery-progress is the number of good verdicts
\* met in a row (a bad verdict puts it back to 0; a sample the sink fails
\* on gives no verdict and does not break the row); the good verdict that
\* makes it recover_cycles, and no other call, calls trigger_recover (once,
\* running the recover target once when configured) and leaves Normal-Good
\* with bad-progress 0.
C5_Recovery ==
    /\ state.tag = "Bad" => state.good_cycles = goodRun
    /\ (state.tag = "Bad" /\ last.decision = "Bad") => state.good_cycles = 0
    /\ (state.tag = "Bad" /\ recover_cycles >= 1) => goodRun < recover_cycles
    /\ (recover_cycles >= 1 /\ goodRun = recover_cycles) =>
           /\ state.tag = "Good"
           /\ state.bad_cycles = 0
           /\ last.called = "trigger_recover"
           /\ last.result # "Panic"
           /\ last.invoked = (IF last.configured THEN 1 ELSE 0)
    /\ (last.called = "trigger_recover" /\ last.result # "Panic") =>
           goodRun = recover_cycles

C5_Witness ==
    /\ recover_cycles = 2
    /\ goodRun = 2
    /\ state.tag = "Good"
    /\ last.pre.tag = "Bad"
    /\ last.invoked = 1

\* C6: after n >= 1 put_error calls in a row, a bad verdict gives the state
\* and the trigger decision that the same bad verdict gives when applied to
\* the state that was current before the first of those calls.
C6_ResumeAfterErrors ==
    [][(errRun >= 1 /\ last'.op = "put_data" /\ last'.decision = "Bad") =>
          LET direct == bad(preError, NextUuid, NextTime, last'.configured,
                            last'.actionOk)
          IN  /\ state' = direct.state
              /\ last'.trigger = direct.trigger
              /\ last'.called = direct.called
              /\ last'.invoked = direct.invoked]_vars

C6_Witness ==
    /\ last.op = "put_data"
    /\ last.decision = "Bad"
    /\ last.pre.tag = "Error"
    /\ last.pre.cycles >= 2
    /\ last.pre.shadowed_state.tag = "Good"
    /\ last.pre.shadowed_state.bad_cycles = 1
    /\ state.tag = "Bad"
    /\ last.trigger

\* C7: a put_error call met in Normal-Good or Normal-Bad leaves the state
\* Erroring with error-count 1 and, as shadow, the state as it was before
\* the call (every field of it), and calls trigger_error once in that call
\* (running the error target once when one is configured).
C7_EnterErroring ==
    (last.op = "put_error" /\ last.pre.tag \in {"Good", "Bad"}) =>
        /\ state.tag = "Error"
        /\ state.cycles = 1
        /\ state.shadowed_state = last.pre
        /\ last.called = "trigger_error"
        /\ last.result # "Panic"
        /\ last.invoked = (IF last.configured THEN 1 ELSE 0)

C7_Witness ==
    /\ last.op = "put_error"
    /\ last.pre.tag = "Bad"
    /\ last.pre.cycles = 2
    /\ last.pre.good_cycles = 1
    /\ state.tag = "Error"
    /\ last.invoked = 1

\* The (new_state, trigger) pair the update function for verdict `d` gives.
Update(d, st) ==
    IF d = "Error" THEN error_update_state(st, NextUuid, NextTime)
    ELSE IF d = "Bad" THEN bad_update_state(st, NextUuid, NextTime)
    ELSE good_update_state(st, NextUuid, NextTime)

\* C8: when the action target run by a call fails, the call returns the
\* failure and the state is the one the update function gave (the
\* transition stays); and the call after a failed one calls a trigger
\* function exactly when its own update says so (nothing is retried).
C8_FailureKeepsTransition ==
    [][/\ (last'.invoked = 1 /\ ~last'.actionOk) =>
              /\ last'.result = "Err"
              /\ state' = Update(last'.decision, state).state
       /\ (last.invoked = 1 /\ ~last.actionOk) =>
              IF last'.decision = "none" THEN last'.called = "none"
              ELSE (last'.called # "none") = Update(last'.decision, state).trigger]_vars

C8_Witness ==
    /\ last.invoked = 1
    /\ ~last.actionOk
    /\ last.result = "Err"
    /\ last.pre.tag = "Good"
    /\ state.tag = "Bad"

\* C9: a sample the sink fails on is treated as an error: after the call
\* the state is Erroring (Normal-Good and Normal-Bad become Erroring), and
\* trigger_error was called when the state was not Erroring before.
C9_SinkErrorIsError ==
    (last.op = "put_data" /\ last.raw = "Err") =>
        /\ state.tag = "Error"
        /\ last.pre.tag \in {"Good", "Bad"} => last.called = "trigger_error"

\* Good for Bad and Bad for Good in what the sink returns.
Swapped(raw) ==
    CASE raw = "Good" -> "Bad"
      [] raw = "Bad" -> "Good"
      [] OTHER -> raw

\* C10: a put_data call of an alarm does what the same call does with invert
\* negated and the sink's verdict swapped: same next state, same trigger
\* decision, same trigger function, same result.
C10_InvertSwaps ==
    [][last'.op = "put_data" =>
          LET twin == put_data(~invert, state, NextUuid, NextTime,
                               Swapped(last'.raw), last'.configured,
                               last'.actionOk)
          IN  /\ state' = twin.state
              /\ last'.decision = twin.decision
              /\ last'.trigger = twin.trigger
              /\ last'.called = twin.called
              /\ last'.invoked = twin.invoked
              /\ last'.result = twin.result]_vars

C10_Witness ==
    /\ invert
    /\ last.op = "put_data"
    /\ last.raw = "Good"
    /\ last.called = "trigger"
    /\ last.invoked = 1
    /\ state.tag = "Bad"

\* C11: with repeat_cycles = 0 the bad trigger is only ever called on the
\* verdict that enters Normal-Bad, never again while the alarm is in that
\* episode, however many bad verdicts follow.
C11_NoRepeatAtZero ==
    (repeat_cycles = 0 /\ last.called = "trigger") => Resumed(last.pre).tag = "Good"

\* The keys a trigger function sets itself, with HashMap::insert.
EngineKeys(called) ==
    {"alarm_name"} \cup
        (IF called = "trigger" THEN {"alarm_timestamp", "alarm_uuid"}
         ELSE IF called = "trigger_recover" THEN {"alarm_uuid"}
         ELSE {"error_uuid", "error_timestamp"})

BadTriggerFired == last.called = "trigger" /\ last.invoked = 1

\* The keys the map of a bad trigger must have.
BadTriggerKeys ==
    DOMAIN last.caller \cup DOMAIN placeholders
        \cup {"alarm_name", "alarm_timestamp", "alarm_uuid"}

\* C13 as stated: when the bad trigger fires the map has exactly the caller's
\* keys, the base keys, alarm_name, alarm_timestamp and alarm_uuid; alarm_name
\* is the alarm's name, alarm_uuid the identifier of the current Normal-Bad
\* episode, and every base key and every caller key has its configured /
\* supplied value.
C13_BadPayload ==
    BadTriggerFired =>
        /\ DOMAIN last.payload = BadTriggerKeys
        /\ last.payload["alarm_name"] = name
        /\ state.tag = "Bad" /\ last.payload["alarm_uuid"] = uuid_string(state.uuid)
        /\ \A k \in DOMAIN last.caller : last.payload[k] = last.caller[k]
        /\ \A k \in DOMAIN placeholders : last.payload[k] = placeholders[k]

\* C13 amended: the same keys, alarm_name and alarm_uuid; a caller key other
\* than the three engine keys has the supplied value, and a base key that is
\* neither a caller key nor an engine key has the configured value.
C13_BadPayloadDisjoint ==
    BadTriggerFired =>
        /\ DOMAIN last.payload = BadTriggerKeys
        /\ last.payload["alarm_name"] = name
        /\ state.tag = "Bad" /\ last.payload["alarm_uuid"] = uuid_string(state.uuid)
        /\ last.payload["alarm_timestamp"] = iso8601(state.timestamp)
        /\ \A k \in DOMAIN last.caller \ EngineKeys("trigger") :
              last.payload[k] = last.caller[k]
        /\ \A k \in DOMAIN placeholders \ (DOMAIN last.caller \cup EngineKeys("trigger")) :
              last.payload[k] = placeholders[k]

\* The scenario of the test module: one base key, one caller key, 5 keys.
C13_Witness ==
    /\ BadTriggerFired
    /\ last.caller = FooBar
    /\ placeholders = HelloWorld
    /\ Cardinality(DOMAIN last.payload) = 5
    /\ last.payload["Foo"] = "Bar" /\ last.payload["Hello"] = "World"

\* C14: with all four thresholds >= 1, no progress counter exceeds its
\* threshold in any reachable state: Normal-Good bad-progress < cycles,
\* Normal-Bad bad-count <= repeat_cycles and recovery-progress <
\* recover_cycles, Erroring error-count <= error_repeat_cycles, the same for
\* the state held in a shadow.
C14_CountersWithinThresholds ==
    LET within(st) ==
            IF st.tag = "Good" THEN st.bad_cycles < cycles
            ELSE /\ st.cycles <= repeat_cycles
                 /\ st.good_cycles < recover_cycles
    IN  (cycles >= 1 /\ repeat_cycles >= 1 /\ recover_cycles >= 1
            /\ error_repeat_cycles >= 1)
        => /\ within(Resumed(state))
           /\ state.tag = "Error" => state.cycles <= error_repeat_cycles

\* The step keeps the variant of a state that has an identifier, and the
\* identifier with it.
KeepsEpisode ==
    (state'.tag = state.tag /\ state.tag \in {"Bad", "Error"})
        => state'.uuid = state.uuid

\* C15 as stated: an identifier is generated precisely when a call moves the
\* state into Normal-Bad or into Erroring from a state of another variant;
\* the new state then has an identifier never used before, and a step that
\* stays in the variant keeps the identifier.
C15_FreshOnCrossing ==
    [][LET crossing == state'.tag \in {"Bad", "Error"} /\ state'.tag # state.tag
       IN  /\ crossing => state'.uuid = uuids + 1 /\ uuids' = uuids + 1
           /\ ~crossing => uuids' = uuids
           /\ KeepsEpisode]_vars

\* C15 amended: an identifier is generated precisely when a call starts an
\* episode, that is moves into Erroring from another variant, or into
\* Normal-Bad from Normal-Good (the Normal-Good may be the shadow of an
\* Erroring state); a step that stays in the variant keeps the identifier,
\* and a step from Erroring to Normal-Bad over a Normal-Bad shadow resumes
\* the shadow's identifier.
C15_FreshOnNewEpisode ==
    [][LET starts == \/ state'.tag = "Error" /\ state.tag # "Error"
                     \/ state'.tag = "Bad" /\ Resumed(state).tag = "Good"
       IN  /\ starts => state'.uuid = uuids + 1 /\ uuids' = uuids + 1
           /\ ~starts => uuids' = uuids
           /\ KeepsEpisode
           /\ (state.tag = "Error" /\ state.shadowed_state.tag = "Bad"
                  /\ state'.tag = "Bad")
                => state'.uuid = state.shadowed_state.uuid]_vars

C15_Witness ==
    /\ last.pre.tag = "Error"
    /\ last.pre.shadowed_state.tag = "Bad"
    /\ state.tag = "Bad"
    /\ state.uuid = last.pre.shadowed_state.uuid
    /\ state.uuid < last.pre.uuid

\* C16: a good verdict in an Erroring state is processed with the bad update
\* of the shadow: the next state is the one a bad verdict gives (a Normal-Good
\* shadow gains one bad-progress or becomes Normal-Bad; a Normal-Bad shadow
\* is counted one more bad verdict, the count restarting at a re-trigger,
\* with recovery-progress 0), and the sample neither advances the
\* recovery-progress nor moves Normal-Bad to Normal-Good.
C16_GoodInErrorIsBad ==
    [][(state.tag = "Error" /\ last'.op = "put_data" /\ last'.decision = "Good")
        => LET sh == state.shadowed_state
           IN  /\ state' = Update("Bad", state).state
               /\ state' = Update("Bad", sh).state
               /\ sh.tag = "Good" =>
                    \/ state'.tag = "Good" /\ state'.bad_cycles = sh.bad_cycles + 1
                    \/ state'.tag = "Bad"
               /\ sh.tag = "Bad" =>
                    /\ state'.tag = "Bad"
                    /\ state'.cycles \in {sh.cycles + 1, 1}
                    /\ state'.uuid = sh.uuid
               /\ state'.tag = "Bad" => state'.good_cycles = 0]_vars

C16_Witness ==
    /\ last.op = "put_data" /\ last.decision = "Good"
    /\ last.pre.tag = "Error"
    /\ last.pre.shadowed_state.tag = "Bad"
    /\ last.pre.shadowed_state.good_cycles > 0
    /\ state.tag = "Bad"
    /\ state.cycles = last.pre.shadowed_state.cycles + 1
    /\ state.good_cycles = 0

\* C17: bad-progress counts consecutive bad verdicts, so a call moves the
\* alarm from Normal-Good to Normal-Bad only when the last `cycles` verdicts
\* were all bad; checked for the verdict just before the one that triggers:
\* with cycles >= 2, when the call before was a verdict it was a bad one.
C17_TriggerNeedsConsecutiveBads ==
    [][(/\ cycles >= 2
        /\ state.tag = "Good" /\ state'.tag = "Bad"
        /\ last'.decision = "Bad"
        /\ last.op = "put_data" /\ last.decision # "none")
       => last.decision = "Bad"]_vars

\* C18: whenever the recovery action is invoked, its alarm_uuid is the
\* identifier of the Normal-Bad episode just left, and that is the alarm_uuid
\* every bad trigger of the episode carried, error episodes in between or
\* not.
C18_RecoveryCarriesEpisode ==
    (last.called = "trigger_recover" /\ last.invoked = 1) =>
        /\ last.pre.tag = "Bad"
        /\ state.tag = "Good"
        /\ "alarm_uuid" \in DOMAIN last.payload
        /\ last.payload["alarm_uuid"] = uuid_string(last.pre.uuid)
        /\ episodeUuids = {last.payload["alarm_uuid"]}

\* A recovery from an episode during which a later identifier was given out,
\* that is with an error episode in between.
C18_Witness ==
    /\ last.called = "trigger_recover" /\ last.invoked = 1
    /\ last.pre.tag = "Bad"
    /\ last.pre.uuid < uuids
    /\ last.payload["alarm_uuid"] = uuid_string(last.pre.uuid)

\* C19: the shadow of an Erroring state is a Normal-Good or Normal-Bad
\* state, never an Erroring one; it is the state that was active just before
\* the first error of the episode, and every later step of the episode
\* (further put_error calls) leaves the shadow, the episode identifier and
\* the episode timestamp as they are.
C19_ShadowIsPreErrorState ==
    [][/\ state'.tag = "Error" => state'.shadowed_state.tag \in {"Good", "Bad"}
       /\ (state.tag # "Error" /\ state'.tag = "Error")
            => state'.shadowed_state = state
       /\ (state.tag = "Error" /\ state'.tag = "Error")
            => /\ state'.shadowed_state = state.shadowed_state
               /\ state'.uuid = state.uuid
               /\ state'.timestamp = state.timestamp]_vars

\* Three put_error calls in a row from a Normal-Bad state.
C19_Witness ==
    /\ state.tag = "Error"
    /\ errRun >= 3
    /\ preError.tag = "Bad"
    /\ state.shadowed_state = preError
    /\ state.cycles # 1

\* C20: with cycles >= 1 and recover_cycles >= 1, from every reachable
\* state a run of good verdicts only, the scheduler calling on, eventually
\* brings the alarm to Normal-Good without an abort.
C20_GoodRunClears ==
    (quiet /\ cycles >= 1 /\ recover_cycles >= 1)
        ~> (state.tag = "Good" /\ last.result # "Panic")

====
